---- MODULE Spec2Model ----
(***************************************************************************)
(* A model of orders-ms (src/src/orders/orders.service.ts): OrdersService   *)
(* on top of its Prisma store (tables Order, OrderItem, OrderReceipt) and   *)
(* of the catalog reached through natsClient.send('validate_products').     *)
(*                                                                         *)
(* Every handler is an async function; it is cut into steps at the awaits   *)
(* where it touches the store, so that handlers of concurrent requests       *)
(* interleave the way the event loop lets them.  A catalog reply only       *)
(* changes the handler's locals, so the reply and the code that runs up to   *)
(* the next store call form one step with that store call.                  *)
(*                                                                         *)
(* Money is counted in integer units; null is 0 for paidAt and "" for       *)
(* stripeChargeId; an absent (undefined) filter or page is Undefined / 0.   *)
(***************************************************************************)
EXTENDS Integers, Sequences, FiniteSets, TLC

VARIABLES orders, orderItems, receipts, clock, proc

vars == <<orders, orderItems, receipts, clock, proc>>

-----------------------------------------------------------------------------
(* Bounds *)

\* orders the store may hold under the concurrent specification Spec
MaxOrders == 1
\* orders the store may hold under the sequential specification SpecSeq
MaxOrdersSeq == 1
\* orders the store may hold under the listing specification SpecList
MaxOrdersList == 3
\* items of a createOrder request (SpecCreate)
MaxLen == 2
\* quantity of an item (SpecCreate)
MaxQty == 2
\* price the catalog may quote (SpecCreate)
MaxPrice == 2
\* page and limit of a findAllOrders request (SpecList)
MaxPage == 2
MaxLimit == 2
\* values of the clock behind new Date() (SpecSeq)
MaxClock == 2

\* PaginationDto's defaults
DefaultPage == 1
DefaultLimit == 10
\* HttpStatus.NOT_FOUND
NOT_FOUND == 404

Products == {"p1", "p2"}
Undefined == "undefined"

-----------------------------------------------------------------------------
(* OrderStatus and the rows of the store *)

OrderStatusList == {"PENDING", "PAID", "DELIVERED", "CANCELLED"}

Range(s) == {s[i] : i \in DOMAIN s}

\* the row Prisma inserts for order.create: the schema's defaults and the data
NewOrderRow(id, data) ==
  [id |-> id,
   totalAmount |-> data.totalAmount,
   totalItems |-> data.totalItems,
   status |-> "PENDING",
   paid |-> FALSE,
   paidAt |-> 0,
   stripeChargeId |-> ""]

\* include: { OrderItem: { select: { price, quantity, productId } } }
SelectItem(row) ==
  [price |-> row.price, quantity |-> row.quantity, productId |-> row.productId]

ItemsOf(items, id) ==
  LET rows == SelectSeq(items, LAMBDA r : r.orderId = id)
  IN [i \in DOMAIN rows |-> SelectItem(rows[i])]

IncludeItems(row, items) == row @@ [OrderItem |-> ItemsOf(items, row.id)]

ReceiptsOf(rs, id) == SelectSeq(rs, LAMBDA r : r.orderId = id)

-----------------------------------------------------------------------------
(* Results and failures of a handler *)

NoValue == [none |-> TRUE]
NoError == [type |-> "", status |-> 0, message |-> "", id |-> 0]

Ok(v) == [ok |-> TRUE, value |-> v, error |-> NoError]
Err(e) == [ok |-> FALSE, value |-> NoValue, error |-> e]

\* a variant of NotFoundError: a plain Error, which reaches the caller as an
\* internal error
NotFoundErrorPlain(id) ==
  [type |-> "Error", status |-> 500, message |-> "Internal server error", id |-> 0]

\* new RpcException({ message: `Order with id ${id} not found`, status: NOT_FOUND })
NotFoundError(id) ==
  [type |-> "RpcException", status |-> NOT_FOUND,
   message |-> "Order with id ${id} not found", id |-> id]

\* a variant of RemoteError: the collaborator's payload is dropped
RemoteErrorWithoutPayload(err) ==
  [type |-> "RpcException", status |-> 500, message |-> "Internal server error", id |-> 0]

\* catchError(err => { throw new RpcException(err) }): the collaborator's payload
RemoteError(err) ==
  [type |-> "RpcException", status |-> err.status, message |-> err.message, id |-> 0]

\* products.find(...) is undefined and its .price / .name is read
UndefinedPropertyError ==
  [type |-> "TypeError", status |-> 0,
   message |-> "Cannot read properties of undefined", id |-> 0]

\* Prisma: the record to update does not exist (P2025)
RecordNotFoundError(id) ==
  [type |-> "PrismaClientKnownRequestError", status |-> 0, message |-> "P2025", id |-> id]

\* Prisma: a second OrderReceipt for the order breaks its one-to-one relation
ReceiptConflictError(id) ==
  [type |-> "PrismaClientKnownRequestError", status |-> 0, message |-> "P2002", id |-> id]

-----------------------------------------------------------------------------
(* The catalog: what natsClient.send({ cmd: 'validate_products' }, { ids })   *)
(* may answer.  It either errors with a payload of its own, or returns one   *)
(* { id, name, price } for each id it recognizes, and nothing for the others. *)

CatalogReplies(ids, U) ==
  {[failed |-> TRUE, error |-> e, products |-> {}] : e \in U.errors}
  \cup
  UNION {
    {[failed |-> FALSE, error |-> [status |-> 0, message |-> ""],
      products |-> {[id |-> i, name |-> f[i].name, price |-> f[i].price] : i \in S}]
       : f \in [S -> [name : U.names, price : U.prices]]}
    : S \in SUBSET Range(ids)}

\* products.find( product => product.id === id ) finds an element
Found(products, id) == \E product \in products : product.id = id

\* products.find( product => product.id === id ), when it finds one
Find(products, id) == CHOOSE product \in products : product.id = id

\* some products.find(...) of the handler is undefined, so reading its
\* .price or .name throws
ReadsUndefined(items, products) ==
  \E i \in DOMAIN items : ~Found(products, items[i].productId)

-----------------------------------------------------------------------------
(* OrdersService.create *)

\* a variant of AddAmount: the quantity is left out of the product
AddAmountOfPrice(acc, orderItem, products) ==
  acc + Find(products, orderItem.productId).price

\* the callback of the reduce that computes totalAmount
AddAmount(acc, orderItem, products) ==
  acc + (Find(products, orderItem.productId).price * orderItem.quantity)

\* createOrderDto.items.reduce( (acc, orderItem) => ..., acc ) for totalAmount
RECURSIVE ReduceAmount(_, _, _)
ReduceAmount(items, products, acc) ==
  IF items = <<>> THEN acc
  ELSE ReduceAmount(Tail(items), products, AddAmount(acc, Head(items), products))

TotalAmount(items, products) == ReduceAmount(items, products, 0)

\* createOrderDto.items.reduce( (acc, orderItem) => acc + orderItem.quantity, acc )
RECURSIVE ReduceQuantity(_, _)
ReduceQuantity(items, acc) ==
  IF items = <<>> THEN acc ELSE ReduceQuantity(Tail(items), acc + Head(items).quantity)

TotalItems(items) == ReduceQuantity(items, 0)

\* the data of this.order.create
CreateData(items, products) ==
  [totalAmount |-> TotalAmount(items, products),
   totalItems |-> TotalItems(items),
   OrderItem |-> [i \in DOMAIN items |->
                    [price |-> Find(products, items[i].productId).price,
                     productId |-> items[i].productId,
                     quantity |-> items[i].quantity]]]

\* a variant of WithNames: the price is taken from the products too
WithNamesAndPrices(order, products) ==
  [order EXCEPT !.OrderItem =
     [i \in DOMAIN @ |->
        [productId |-> @[i].productId,
         quantity |-> @[i].quantity,
         price |-> Find(products, @[i].productId).price,
         name |-> Find(products, @[i].productId).name]]]

\* OrderItem: order.OrderItem.map(orderItem => ({ ...orderItem, name: ... }))
WithNames(order, products) ==
  [order EXCEPT !.OrderItem =
     [i \in DOMAIN @ |-> @[i] @@ [name |-> Find(products, @[i].productId).name]]]

\* the rows createMany inserts for the order
ItemRows(id, data) ==
  [i \in DOMAIN data.OrderItem |->
     [orderId |-> id,
      price |-> data.OrderItem[i].price,
      productId |-> data.OrderItem[i].productId,
      quantity |-> data.OrderItem[i].quantity]]

-----------------------------------------------------------------------------
(* Requests in flight *)

Procs == {1, 2}

NoArg == [none |-> TRUE]
NoOrder == [none |-> TRUE]
NoResult == [ok |-> FALSE, value |-> NoValue, error |-> NoError]
NoReply == [failed |-> FALSE, error |-> [status |-> 0, message |-> ""], products |-> {}]

\* A request: the handler (op), where it stands (pc), its argument, its locals
\* (order, the collaborator's reply, findAll's totalPages, the time paidOrder
\* read) and its answer (res);
\* sent counts the validate_products requests it has sent and writes the
\* writes it has made to the store.
Idle ==
  [op |-> "idle", pc |-> "idle", arg |-> NoArg, order |-> NoOrder,
   reply |-> NoReply, sent |-> 0, writes |-> 0, total |-> 0, now |-> 0,
   res |-> NoResult]

Exists(id) == id \in DOMAIN orders

\* createOrder requests that have not yet answered
Creating == {p \in Procs : proc[p].op = "create" /\ proc[p].pc = "validating"}

Done(p, res) == [proc[p] EXCEPT !.pc = "done", !.res = res]

Replied(p, reply, res) == [Done(p, res) EXCEPT !.reply = reply]

Written(p, reply, res) == [Replied(p, reply, res) EXCEPT !.writes = @ + 1]

Init ==
  /\ orders = <<>>
  /\ orderItems = <<>>
  /\ receipts = <<>>
  /\ clock = 1
  /\ proc = [p \in Procs |-> Idle]

\* create, up to the await of the catalog's reply
CreateCall(p, U) ==
  /\ proc[p].pc = "idle"
  /\ Len(orders) + Cardinality(Creating) < U.maxOrders
  /\ \E items \in U.lists :
       proc' = [proc EXCEPT ![p] =
                  [Idle EXCEPT !.op = "create", !.pc = "validating",
                               !.arg = [items |-> items], !.sent = 1]]
  /\ UNCHANGED <<orders, orderItems, receipts, clock>>

\* create, from the catalog's reply to its return
CreateReply(p, U) ==
  /\ proc[p].op = "create"
  /\ proc[p].pc = "validating"
  /\ LET items == proc[p].arg.items
         ids == [i \in DOMAIN items |-> items[i].productId]
     IN \E reply \in CatalogReplies(ids, U) :
          IF reply.failed
          THEN /\ proc' = [proc EXCEPT ![p] =
                             Replied(p, reply, Err(RemoteError(reply.error)))]
               /\ UNCHANGED <<orders, orderItems, receipts>>
          ELSE IF ReadsUndefined(items, reply.products)
          THEN /\ proc' = [proc EXCEPT ![p] =
                             Replied(p, reply, Err(UndefinedPropertyError))]
               /\ UNCHANGED <<orders, orderItems, receipts>>
          ELSE LET data == CreateData(items, reply.products)
                   id == Len(orders) + 1
                   row == NewOrderRow(id, data)
                   rows == orderItems \o ItemRows(id, data)
               IN /\ orders' = Append(orders, row)
                  /\ orderItems' = rows
                  /\ UNCHANGED receipts
                  /\ proc' = [proc EXCEPT ![p] =
                       Written(p, reply,
                               Ok(WithNames(IncludeItems(row, rows), reply.products)))]
  /\ UNCHANGED clock

-----------------------------------------------------------------------------
(* OrdersService.findOne and changeStatus *)

\* the ids a request may name: those of the orders, and one that is never used
RequestIds(U) == 1 .. (U.maxOrders + 1)

\* this.order.findFirst({ where: { id }, include: ... }) and the throw after it:
\* the handler answers not-found, or goes on to ask the catalog
FindOneRead(p, op, arg) ==
  IF Exists(arg.id)
  THEN [Idle EXCEPT !.op = op, !.pc = "resolving", !.arg = arg, !.sent = 1,
                    !.order = IncludeItems(orders[arg.id], orderItems)]
  ELSE [Idle EXCEPT !.op = op, !.pc = "done", !.arg = arg,
                    !.res = Err(NotFoundError(arg.id))]

\* a variant of FindOneResolve: without the catalog's products the order is
\* returned as it was read
FindOneResolveUnnamed(order, reply) ==
  IF reply.failed \/ ReadsUndefined(order.OrderItem, reply.products)
  THEN Ok(order)
  ELSE Ok(WithNames(order, reply.products))

\* findOne from the catalog's reply on: what it returns or throws
FindOneResolve(order, reply) ==
  IF reply.failed THEN Err(RemoteError(reply.error))
  ELSE IF ReadsUndefined(order.OrderItem, reply.products) THEN Err(UndefinedPropertyError)
  ELSE Ok(WithNames(order, reply.products))

ProductIds(order) == [i \in DOMAIN order.OrderItem |-> order.OrderItem[i].productId]

FindOneCall(p, U) ==
  /\ proc[p].pc = "idle"
  /\ \E id \in RequestIds(U) :
       proc' = [proc EXCEPT ![p] = FindOneRead(p, "findOne", [id |-> id])]
  /\ UNCHANGED <<orders, orderItems, receipts, clock>>

FindOneReply(p, U) ==
  /\ proc[p].op = "findOne"
  /\ proc[p].pc = "resolving"
  /\ \E reply \in CatalogReplies(ProductIds(proc[p].order), U) :
       proc' = [proc EXCEPT ![p] =
                  Replied(p, reply, FindOneResolve(proc[p].order, reply))]
  /\ UNCHANGED <<orders, orderItems, receipts, clock>>

\* a variant of SameStatus: the update is never skipped
SameStatusNever(order, status) == FALSE

\* a variant of SameStatus: the order read is always returned as it is
SameStatusAlways(order, status) == TRUE

\* if (order.status === status)
SameStatus(order, status) == order.status = status

\* a variant of ChangeStatusData: only a PENDING order changes status
ChangeStatusDataFromPending(row, status) ==
  [row EXCEPT !.status = IF @ = "PENDING" THEN status ELSE @]

\* a variant of ChangeStatusData: a CANCELLED order keeps its status
ChangeStatusDataUnlessCancelled(row, status) ==
  [row EXCEPT !.status = IF @ = "CANCELLED" THEN @ ELSE status]

\* a variant of WhereId: the update reaches every row
WhereAny(rows, id) == DOMAIN rows

\* where: { id } of this.order.update
WhereId(rows, id) == {i \in DOMAIN rows : rows[i].id = id}

\* a variant of ChangeStatusData: the update also clears the paid flag
ChangeStatusDataClearingPaid(row, status) ==
  [row EXCEPT !.status = status, !.paid = FALSE]

\* the data of this.order.update in changeStatus
ChangeStatusData(row, status) == [row EXCEPT !.status = status]

\* changeStatus, up to the await of the catalog's reply inside findOne; the
\* handler takes the status as it is given and does not look at it
ChangeStatusCall(p, U) ==
  /\ proc[p].pc = "idle"
  /\ \E id \in RequestIds(U), status \in U.targets :
       proc' = [proc EXCEPT ![p] =
                  FindOneRead(p, "changeStatus", [id |-> id, status |-> status])]
  /\ UNCHANGED <<orders, orderItems, receipts, clock>>

\* changeStatus, from the catalog's reply to its return
ChangeStatusReply(p, U) ==
  /\ proc[p].op = "changeStatus"
  /\ proc[p].pc = "resolving"
  /\ LET id == proc[p].arg.id
         status == proc[p].arg.status
     IN \E reply \in CatalogReplies(ProductIds(proc[p].order), U) :
          LET found == FindOneResolve(proc[p].order, reply)
          IN IF ~found.ok
             THEN /\ proc' = [proc EXCEPT ![p] = Replied(p, reply, found)]
                  /\ UNCHANGED orders
             ELSE IF SameStatus(found.value, status)
             THEN /\ proc' = [proc EXCEPT ![p] = Replied(p, reply, found)]
                  /\ UNCHANGED orders
             ELSE /\ orders' = [i \in DOMAIN orders |->
                                   IF i \in WhereId(orders, id)
                                   THEN ChangeStatusData(orders[i], status)
                                   ELSE orders[i]]
                  /\ proc' = [proc EXCEPT ![p] = Written(p, reply, Ok(orders'[id]))]
  /\ UNCHANGED <<orderItems, receipts, clock>>

-----------------------------------------------------------------------------
(* OrdersService.findAll *)

\* where: { status }; an undefined status filters nothing
Matches(row, status) == status = Undefined \/ row.status = status

Matching(status) == {id \in DOMAIN orders : Matches(orders[id], status)}

\* this.order.count({ where: { status } })
Count(status) == Cardinality(Matching(status))

\* a variant of LastPage: the quotient is rounded down
LastPageFloor(totalPages, limit) == totalPages \div limit

\* Math.ceil(totalPages / limit), for a positive limit
LastPage(totalPages, limit) == (totalPages + limit - 1) \div limit

\* skip: (page - 1) * limit
Skip(page, limit) == (page - 1) * limit

\* the orders in which a query without orderBy may return the matching rows
ScanOrders(status) ==
  LET ids == Matching(status)
      n == Cardinality(ids)
  IN {f \in [1 .. n -> ids] : \A i, j \in 1 .. n : i # j => f[i] # f[j]}

\* rows skip+1 .. skip+take of a scan
Slice(scan, skip, take) ==
  LET last == IF skip + take < Len(scan) THEN skip + take ELSE Len(scan)
  IN [i \in 1 .. (IF last > skip THEN last - skip ELSE 0) |-> orders[scan[skip + i]]]

\* PaginationDto: page and limit default when the request leaves them out (0)
Pagination(page, limit, status) ==
  [page |-> IF page = 0 THEN DefaultPage ELSE page,
   limit |-> IF limit = 0 THEN DefaultLimit ELSE limit,
   status |-> status]

\* findAll, up to the await of this.order.count
FindAllCount(p, U) ==
  /\ proc[p].pc = "idle"
  /\ \E page \in U.pages, limit \in U.limits, status \in U.filters :
       LET dto == Pagination(page, limit, status)
       IN proc' = [proc EXCEPT ![p] =
                     [Idle EXCEPT !.op = "findAll", !.pc = "counted", !.arg = dto,
                                  !.total = Count(dto.status)]]
  /\ UNCHANGED <<orders, orderItems, receipts, clock>>

\* findAll, from this.order.findMany to its return
FindAllFindMany(p) ==
  /\ proc[p].op = "findAll"
  /\ proc[p].pc = "counted"
  /\ LET dto == proc[p].arg
         totalPages == proc[p].total
     IN \E scan \in ScanOrders(dto.status) :
          proc' = [proc EXCEPT ![p] =
            Done(p, Ok([data |-> Slice(scan, Skip(dto.page, dto.limit), dto.limit),
                        meta |-> [page |-> dto.page,
                                  total |-> totalPages,
                                  lastPage |-> LastPage(totalPages, dto.limit)]]))]
  /\ UNCHANGED <<orders, orderItems, receipts, clock>>

-----------------------------------------------------------------------------
(* OrdersService.paidOrder *)

\* a variant of PaidOrderData: paidAt is left out
PaidOrderDataWithoutPaidAt(row, dto, now) ==
  [row EXCEPT !.status = "PAID", !.paid = TRUE, !.stripeChargeId = dto.stripePaymentId]

\* a variant of PaidOrderData: paid is left out
PaidOrderDataWithoutPaid(row, dto, now) ==
  [row EXCEPT !.status = "PAID", !.paidAt = now, !.stripeChargeId = dto.stripePaymentId]

\* the scalar data of this.order.update in paidOrder
PaidOrderData(row, dto, now) ==
  [row EXCEPT !.status = "PAID",
              !.paid = TRUE,
              !.paidAt = now,
              !.stripeChargeId = dto.stripePaymentId]

\* OrderReceipt: { create: { receiptUrl } }
ReceiptRow(dto) == [orderId |-> dto.orderId, receiptUrl |-> dto.receiptUrl]

\* the store refuses a second OrderReceipt of an order
ReceiptConflict(id) == ReceiptsOf(receipts, id) # <<>>

\* paidOrder, up to the await of this.order.update: the update is issued with
\* paidAt: new Date(), read from a clock that has not gone back since it was
\* last read
PaidOrderCall(p, U) ==
  /\ proc[p].pc = "idle"
  /\ \E id \in RequestIds(U), ref \in U.refs, url \in U.urls, now \in {t \in U.times : t >= clock} :
       /\ proc' = [proc EXCEPT ![p] =
                     [Idle EXCEPT !.op = "paidOrder", !.pc = "updating", !.now = now,
                                  !.arg = [orderId |-> id, stripePaymentId |-> ref,
                                           receiptUrl |-> url]]]
       /\ clock' = now
  /\ UNCHANGED <<orders, orderItems, receipts>>

\* paidOrder, from the store's answer on: the one update of the order with the
\* nested create of its receipt, which the store applies as a whole or not at
\* all, with the paidAt the request was issued with
PaidOrderApply(p) ==
  /\ proc[p].op = "paidOrder"
  /\ proc[p].pc = "updating"
  /\ LET dto == proc[p].arg
         id == dto.orderId
     IN IF ~Exists(id)
        THEN /\ proc' = [proc EXCEPT ![p] = Done(p, Err(RecordNotFoundError(id)))]
             /\ UNCHANGED <<orders, receipts>>
        ELSE IF ReceiptConflict(id)
        THEN /\ proc' = [proc EXCEPT ![p] = Done(p, Err(ReceiptConflictError(id)))]
             /\ UNCHANGED <<orders, receipts>>
        ELSE /\ orders' = [i \in DOMAIN orders |->
                              IF i \in WhereId(orders, id)
                              THEN PaidOrderData(orders[i], dto, proc[p].now)
                              ELSE orders[i]]
             /\ receipts' = Append(receipts, ReceiptRow(dto))
             /\ proc' = [proc EXCEPT ![p] =
                           [Done(p, Ok(orders'[id])) EXCEPT !.writes = 1]]
  /\ UNCHANGED <<orderItems, clock>>

-----------------------------------------------------------------------------
(* OrdersService.createPaymentSession *)

\* the payload of 'create.payment.session'
PaymentSessionRequest(order) ==
  [orderId |-> order.id,
   currency |-> "usd",
   items |-> [i \in DOMAIN order.OrderItem |->
                [name |-> order.OrderItem[i].name,
                 price |-> order.OrderItem[i].price,
                 quantity |-> order.OrderItem[i].quantity]]]

\* the orders a caller may hand over: the handler takes the order as it is
\* given and does not look it up, so the id, the status and the items are the
\* caller's, whatever the store holds
ResolvedOrders(U) ==
  UNION {
    {WithNames([NewOrderRow(id, CreateData(items, reply.products)) EXCEPT !.status = status]
                 @@ [OrderItem |-> CreateData(items, reply.products).OrderItem],
               reply.products) :
       reply \in {r \in CatalogReplies([i \in DOMAIN items |-> items[i].productId], U) :
                    ~r.failed /\ ~ReadsUndefined(items, r.products)}}
    : id \in RequestIds(U), status \in U.held, items \in U.handed}

\* the exchanges with the payment service a request may have: the service
\* errors with a payload of its own, or answers with a session
PaymentReplies(request, U) ==
  {[request |-> request, failed |-> TRUE, error |-> e, session |-> NoValue]
     : e \in U.errors}
  \cup
  {[request |-> request, failed |-> FALSE, error |-> [status |-> 0, message |-> ""],
    session |-> [url |-> s]] : s \in U.sessions}

\* createPaymentSession, up to the await of the payment service's answer: the
\* request is sent for the order handed over
CreatePaymentSessionCall(p, U) ==
  /\ proc[p].pc = "idle"
  /\ \E order \in ResolvedOrders(U) :
       proc' = [proc EXCEPT ![p] =
                  [Idle EXCEPT !.op = "createPaymentSession", !.pc = "paying",
                               !.arg = [order |-> order]]]
  /\ UNCHANGED <<orders, orderItems, receipts, clock>>

\* createPaymentSession, from the payment service's answer on: the answer is
\* returned as it is; the handler does not touch the store
CreatePaymentSessionReply(p, U) ==
  /\ proc[p].op = "createPaymentSession"
  /\ proc[p].pc = "paying"
  /\ \E reply \in PaymentReplies(PaymentSessionRequest(proc[p].arg.order), U) :
       proc' = [proc EXCEPT ![p] =
                  Replied(p, reply, IF reply.failed
                                    THEN Err(RemoteError(reply.error))
                                    ELSE Ok(reply.session))]
  /\ UNCHANGED <<orders, orderItems, receipts, clock>>

-----------------------------------------------------------------------------
(* The caller *)

\* the caller takes the handler's answer
Return(p) ==
  /\ proc[p].pc = "done"
  /\ proc' = [proc EXCEPT ![p] = Idle]
  /\ UNCHANGED <<orders, orderItems, receipts, clock>>

-----------------------------------------------------------------------------
(* Specifications *)

CatalogErrors ==
  {[status |-> 400, message |-> "Some products were not found"],
   [status |-> 503, message |-> "catalog unavailable"]}

Item(productId, quantity) == [productId |-> productId, quantity |-> quantity]

\* the item lists of at most n items
ItemLists(n, quantities) ==
  UNION {[1 .. k -> {Item(i, q) : i \in Products, q \in quantities}] : k \in 1 .. n}

\* Spec: two requests at a time, on few orders of one item
Concurrent ==
  [procs |-> Procs,
   maxOrders |-> MaxOrders,
   lists |-> {<<Item("p1", 1)>>},
   handed |-> {<<Item("p2", 2)>>},
   held |-> {"PENDING"},
   times |-> {1},
   names |-> {"n1"},
   prices |-> {1},
   errors |-> {[status |-> 503, message |-> "catalog unavailable"]},
   targets |-> OrderStatusList,
   pages |-> {1},
   limits |-> {1},
   filters |-> {"PAID"},
   refs |-> {"ch1"},
   urls |-> {"u1"},
   sessions |-> {"cs1"}]

\* SpecSeq: one request at a time, with every status, payment and time
Sequential ==
  [procs |-> {1},
   maxOrders |-> MaxOrdersSeq,
   lists |-> {<<Item("p1", 1), Item("p2", 2)>>},
   handed |-> {<<Item("p1", 1)>>, <<Item("p2", 2)>>},
   held |-> {"PENDING", "PAID"},
   times |-> 1 .. MaxClock,
   names |-> {"n1", "n2"},
   prices |-> {1},
   errors |-> {[status |-> 503, message |-> "catalog unavailable"]},
   targets |-> OrderStatusList \cup {"SHIPPED"},
   pages |-> {0},
   limits |-> {0},
   filters |-> {Undefined},
   refs |-> {"ch1", "ch2"},
   urls |-> {"u1", "u2"},
   sessions |-> {"cs1"}]

\* SpecCreate: one request at a time, with every item list, price and catalog
\* error; create reads no stored order, and the store holds one order at most
Creation ==
  [procs |-> {1},
   maxOrders |-> 1,
   lists |-> ItemLists(MaxLen, 1 .. MaxQty),
   handed |-> {<<Item("p1", 1)>>},
   held |-> {"PENDING"},
   times |-> {1},
   names |-> {"n1", "n2"},
   prices |-> 1 .. MaxPrice,
   errors |-> CatalogErrors,
   targets |-> {"CANCELLED"},
   pages |-> {0},
   limits |-> {0},
   filters |-> {Undefined},
   refs |-> {"ch1"},
   urls |-> {"u1"},
   sessions |-> {"cs1"}]

\* SpecList: one request at a time, on more orders, with every page, limit and
\* filter
Listing ==
  [procs |-> {1},
   maxOrders |-> MaxOrdersList,
   lists |-> {<<Item("p1", 1)>>},
   handed |-> {<<Item("p1", 1)>>, <<Item("p2", 2)>>},
   held |-> {"PENDING", "PAID"},
   times |-> {1},
   names |-> {"n1"},
   prices |-> {1},
   errors |-> {[status |-> 503, message |-> "catalog unavailable"]},
   targets |-> {"PAID", "CANCELLED"},
   pages |-> 0 .. MaxPage,
   limits |-> 0 .. MaxLimit,
   filters |-> {Undefined} \cup OrderStatusList,
   refs |-> {"ch1"},
   urls |-> {"u1"},
   sessions |-> {"cs1"}]

\* SpecPay: two requests at a time, an order for each, and payments issued at
\* different times
Paying ==
  [procs |-> Procs,
   maxOrders |-> Cardinality(Procs),
   lists |-> {<<Item("p1", 1)>>},
   handed |-> {<<Item("p1", 1)>>},
   held |-> {"PENDING"},
   times |-> 1 .. MaxClock,
   names |-> {"n1"},
   prices |-> {1},
   errors |-> {[status |-> 503, message |-> "catalog unavailable"]},
   targets |-> {"CANCELLED"},
   pages |-> {1},
   limits |-> {1},
   filters |-> {"PAID"},
   refs |-> {"ch1"},
   urls |-> {"u1"},
   sessions |-> {"cs1"}]

Step(U) ==
  \/ \E p \in U.procs : CreateCall(p, U)
  \/ \E p \in U.procs : CreateReply(p, U)
  \/ \E p \in U.procs : FindOneCall(p, U)
  \/ \E p \in U.procs : FindOneReply(p, U)
  \/ \E p \in U.procs : ChangeStatusCall(p, U)
  \/ \E p \in U.procs : ChangeStatusReply(p, U)
  \/ \E p \in U.procs : FindAllCount(p, U)
  \/ \E p \in U.procs : FindAllFindMany(p)
  \/ \E p \in U.procs : CreatePaymentSessionCall(p, U)
  \/ \E p \in U.procs : CreatePaymentSessionReply(p, U)
  \/ \E p \in U.procs : PaidOrderCall(p, U)
  \/ \E p \in U.procs : PaidOrderApply(p)
  \/ \E p \in U.procs : Return(p)

Next == Step(Concurrent)
NextSeq == Step(Sequential)
NextCreate == Step(Creation)
NextList == Step(Listing)
NextPay == Step(Paying)

Spec == Init /\ [][Next]_vars
SpecSeq == Init /\ [][NextSeq]_vars
SpecCreate == Init /\ [][NextCreate]_vars
SpecList == Init /\ [][NextList]_vars
SpecPay == Init /\ [][NextPay]_vars

-----------------------------------------------------------------------------
(* Properties *)

\* the sum of term(1) .. term(n)
RECURSIVE Sigma(_, _)
Sigma(term(_), n) == IF n = 0 THEN 0 ELSE Sigma(term, n - 1) + term(n)

IsDone(p, op) == proc[p].op = op /\ proc[p].pc = "done"

\* the request has read its order from the store
HasOrder(p) == proc[p].sent = 1 /\ proc[p].op \in {"findOne", "changeStatus"}

\* the catalog's reply to the request names every product of the items
Priced(p, items) == ~proc[p].reply.failed /\ ~ReadsUndefined(items, proc[p].reply.products)

\* the order as the store holds it, with its items
Stored(id) == IncludeItems(orders[id], orderItems)

\* v is the order o: the same scalars and the same items
SameOrder(v, o) ==
  /\ v.id = o.id
  /\ v.status = o.status
  /\ v.paid = o.paid
  /\ v.paidAt = o.paidAt
  /\ v.stripeChargeId = o.stripeChargeId
  /\ v.totalAmount = o.totalAmount
  /\ v.totalItems = o.totalItems
  /\ [i \in DOMAIN v.OrderItem |-> SelectItem(v.OrderItem[i])] = o.OrderItem

\* the order was paid by this very payment: its reference and its receipt URL
PaidBy(dto) ==
  /\ Exists(dto.orderId)
  /\ orders[dto.orderId].stripeChargeId = dto.stripePaymentId
  /\ \E i \in DOMAIN receipts : receipts[i] = ReceiptRow(dto)

\* C1: a paidOrder on an order that already carries the same payment reference
\* and receipt URL (the first application, and every redelivery of it) completes
\* without an error and leaves the order paid, PAID and with exactly one receipt.
C1_RedeliveryCompletes ==
  \A p \in Procs :
    (IsDone(p, "paidOrder") /\ PaidBy(proc[p].arg))
      => /\ proc[p].res.ok
         /\ orders[proc[p].arg.orderId].paid
         /\ orders[proc[p].arg.orderId].status = "PAID"
         /\ Len(ReceiptsOf(receipts, proc[p].arg.orderId)) = 1

\* C2 as stated: every persisted order with paid=true has status PAID, a
\* non-null paidAt and an OrderReceipt.
C2_PaidImpliesStatusPaid ==
  \A id \in DOMAIN orders :
    orders[id].paid
      => /\ orders[id].status = "PAID"
         /\ orders[id].paidAt # 0
         /\ ReceiptsOf(receipts, id) # <<>>

\* C2 as amended: every persisted order with paid=true has a non-null paidAt and
\* an OrderReceipt, and it has status PAID as long as no changeStatus has moved
\* it: a step that leaves a paid order's status other than PAID is a
\* changeStatus update of that order.
C2_PaidImpliesPaidAtAndReceipt ==
  /\ [](\A id \in DOMAIN orders :
          orders[id].paid => orders[id].paidAt # 0 /\ ReceiptsOf(receipts, id) # <<>>)
  /\ [][\A id \in DOMAIN orders' :
          (orders'[id].paid /\ orders'[id].status # "PAID"
             /\ (id \notin DOMAIN orders \/ orders[id] # orders'[id]))
            => \E p \in Procs :
                 /\ proc'[p].op = "changeStatus"
                 /\ proc'[p].arg.id = id
                 /\ proc'[p].writes = 1
                 /\ proc[p].pc = "resolving"]_vars

\* C2 witness: a paid order that a changeStatus has moved off PAID
C2_PaidOrderMoved ==
  \E id \in DOMAIN orders :
    orders[id].paid /\ orders[id].status = "CANCELLED" /\ ReceiptsOf(receipts, id) # <<>>

\* C3: a create whose catalog reply leaves out one of its productIds fails with
\* a client-error-class failure (an RpcException with a 4xx status) and writes
\* nothing to the store.
C3_UnknownProductIsClientError ==
  \A p \in Procs :
    (/\ IsDone(p, "create")
     /\ ~proc[p].reply.failed
     /\ ReadsUndefined(proc[p].arg.items, proc[p].reply.products))
      => /\ ~proc[p].res.ok
         /\ proc[p].writes = 0
         /\ proc[p].res.error.type = "RpcException"
         /\ proc[p].res.error.status \in 400 .. 499

\* the price the reply quotes for the item
Quoted(p, item) ==
  (CHOOSE product \in proc[p].reply.products : product.id = item.productId).price

\* C4: a create whose productIds are all in the catalog reply returns and
\* persists an order with totalAmount = the sum of quoted price * quantity and
\* totalItems = the sum of quantities over the request's items; and every
\* persisted order has totalAmount = sum(item.price * item.quantity) and
\* totalItems = sum(item.quantity) over its stored items.
C4_TotalsAreSums ==
  /\ \A p \in Procs :
       (IsDone(p, "create") /\ Priced(p, proc[p].arg.items))
         => LET items == proc[p].arg.items
                order == proc[p].res.value
            IN /\ proc[p].res.ok
               /\ order.totalAmount =
                    Sigma(LAMBDA i : Quoted(p, items[i]) * items[i].quantity, Len(items))
               /\ order.totalItems = Sigma(LAMBDA i : items[i].quantity, Len(items))
               /\ Len(order.OrderItem) = Len(items)
               /\ Exists(order.id)
               /\ SameOrder(order, Stored(order.id))
  /\ \A id \in DOMAIN orders :
       LET items == ItemsOf(orderItems, id)
       IN /\ orders[id].totalAmount =
               Sigma(LAMBDA i : items[i].price * items[i].quantity, Len(items))
          /\ orders[id].totalItems = Sigma(LAMBDA i : items[i].quantity, Len(items))

\* C4 witness: create has returned an order of two items of the same product
C4_RepeatedProductCreated ==
  \E p \in Procs :
    /\ IsDone(p, "create")
    /\ proc[p].res.ok
    /\ Len(proc[p].arg.items) = 2
    /\ proc[p].arg.items[1].productId = proc[p].arg.items[2].productId
    /\ proc[p].arg.items[1].quantity # proc[p].arg.items[2].quantity
    /\ proc[p].res.value.totalAmount > proc[p].res.value.totalItems

\* C5: a changeStatus to the status the order already has makes no write to the
\* store, and the order it returns is the order as it was before the call.
C5_SameStatusIsNoOp ==
  \A p \in Procs :
    (/\ IsDone(p, "changeStatus")
     /\ HasOrder(p)
     /\ proc[p].order.status = proc[p].arg.status)
      => /\ proc[p].writes = 0
         /\ Stored(proc[p].arg.id) = proc[p].order
         /\ proc[p].res.ok =>
              /\ "OrderItem" \in DOMAIN proc[p].res.value
              /\ SameOrder(proc[p].res.value, proc[p].order)

\* C5 witness: a changeStatus to the order's own status, other than the one it
\* was created with, has returned the order
C5_SameStatusReturned ==
  \E p \in Procs :
    /\ IsDone(p, "changeStatus")
    /\ HasOrder(p)
    /\ proc[p].order.status = proc[p].arg.status
    /\ proc[p].arg.status = "DELIVERED"
    /\ proc[p].order.paid
    /\ proc[p].res.ok

\* C6: a changeStatus to a status other than the order's, whatever the two
\* statuses are, succeeds once the catalog has named the order's products, and
\* sets the stored status to the new one; and findOne returns the order as
\* stored, so the findOne after it returns the new status.
C6_AnyTransitionTakesEffect ==
  /\ \A p \in Procs :
       (/\ IsDone(p, "changeStatus")
        /\ HasOrder(p)
        /\ Priced(p, proc[p].order.OrderItem)
        /\ proc[p].order.status # proc[p].arg.status)
         => /\ proc[p].res.ok
            /\ proc[p].writes = 1
            /\ proc[p].res.value.status = proc[p].arg.status
            /\ orders[proc[p].arg.id].status = proc[p].arg.status
  /\ \A p \in Procs :
       (IsDone(p, "findOne") /\ proc[p].res.ok)
         => SameOrder(proc[p].res.value, Stored(proc[p].arg.id))

\* C6 witness: a changeStatus has moved a CANCELLED order to PAID
C6_CancelledMovedToPaid ==
  \E p \in Procs :
    /\ IsDone(p, "changeStatus")
    /\ HasOrder(p)
    /\ proc[p].order.status = "CANCELLED"
    /\ proc[p].arg.status = "PAID"
    /\ proc[p].res.ok
    /\ orders[proc[p].arg.id].status = "PAID"

\* C7: every order has at most one OrderReceipt, a receipt belongs to an order
\* that a paidOrder has marked paid, and only a successful paidOrder adds a
\* receipt (create and changeStatus never do); no receipt is ever removed.
C7_AtMostOneReceipt ==
  /\ [](\A i \in DOMAIN receipts :
          /\ Exists(receipts[i].orderId)
          /\ orders[receipts[i].orderId].paid
          /\ \A j \in DOMAIN receipts :
               receipts[j].orderId = receipts[i].orderId => j = i)
  /\ [][receipts' # receipts
          => \E p \in Procs :
               /\ proc[p].op = "paidOrder"
               /\ proc[p].pc = "updating"
               /\ proc'[p].pc = "done"
               /\ proc'[p].res.ok
               /\ receipts' = Append(receipts, ReceiptRow(proc'[p].arg))]_vars

\* C7 witness: a second paidOrder on an order that has its receipt was refused
C7_SecondReceiptRefused ==
  \E p \in Procs :
    /\ IsDone(p, "paidOrder")
    /\ ~proc[p].res.ok
    /\ Len(ReceiptsOf(receipts, proc[p].arg.orderId)) = 1

\* C8: a create whose validate_products call errors has sent one request, fails
\* with an RpcException carrying the collaborator's error, and has written
\* nothing; and an order is written with all its items in one step, or not at
\* all: every order has items, every item has its order, and the step that
\* adds an order adds one order and the items of its request.
C8_CatalogFailurePropagates ==
  /\ [](\A p \in Procs :
          (IsDone(p, "create") /\ proc[p].reply.failed)
            => /\ ~proc[p].res.ok
               /\ proc[p].sent = 1
               /\ proc[p].writes = 0
               /\ proc[p].res.error.type = "RpcException"
               /\ proc[p].res.error.status = proc[p].reply.error.status
               /\ proc[p].res.error.message = proc[p].reply.error.message)
  /\ [](/\ \A i \in DOMAIN orderItems : Exists(orderItems[i].orderId)
        /\ \A id \in DOMAIN orders : ItemsOf(orderItems, id) # <<>>)
  /\ [][\A p \in Procs :
          (proc[p].op = "create" /\ proc[p].pc = "validating" /\ proc'[p].pc = "done")
            => IF proc'[p].res.ok
               THEN /\ Len(orders') = Len(orders) + 1
                    /\ Len(orderItems') = Len(orderItems) + Len(proc[p].arg.items)
               ELSE orders' = orders /\ orderItems' = orderItems]_vars
  /\ [][(orders' # orders /\ Len(orders') # Len(orders)) \/ orderItems' # orderItems
          => \E p \in Procs :
               proc[p].op = "create" /\ proc[p].pc = "validating" /\ proc'[p].res.ok]_vars

\* C8 witness: a create has failed with the catalog's own error
C8_CatalogErrorReturned ==
  \E p \in Procs :
    /\ IsDone(p, "create")
    /\ proc[p].reply.failed
    /\ proc[p].reply.error.status = 400
    /\ proc[p].res.error.status = 400
    /\ Len(proc[p].arg.items) = 2

\* C9: findOne and changeStatus for an id that no order has fail with an
\* RpcException of status NOT_FOUND whose message names the id, having sent
\* nothing to the catalog and written nothing to the store; the step that
\* answers so leaves the store as it was.
C9_MissingOrderIsNotFound ==
  /\ [](\A p \in Procs :
          (proc[p].op \in {"findOne", "changeStatus"} /\ ~Exists(proc[p].arg.id))
            => /\ proc[p].pc = "done"
               /\ ~proc[p].res.ok
               /\ proc[p].res.error.type = "RpcException"
               /\ proc[p].res.error.status = 404
               /\ proc[p].res.error.message = "Order with id ${id} not found"
               /\ proc[p].res.error.id = proc[p].arg.id
               /\ proc[p].sent = 0
               /\ proc[p].writes = 0)
  /\ [][\A p \in Procs :
          (/\ proc[p].pc = "idle"
           /\ proc'[p].op \in {"findOne", "changeStatus"}
           /\ ~Exists(proc'[p].arg.id))
            => orders' = orders /\ orderItems' = orderItems /\ receipts' = receipts]_vars

\* C9 witness: a changeStatus for an unused id was answered while an order exists
C9_ChangeStatusOfMissingOrder ==
  \E p \in Procs :
    /\ IsDone(p, "changeStatus")
    /\ ~Exists(proc[p].arg.id)
    /\ orders # <<>>
    /\ ~proc[p].res.ok

\* C10: findAll returns meta.total = the number of orders matching the filter
\* (all of them without a filter), meta.lastPage = ceil(total / limit),
\* meta.page = page, and as data the matching orders left after skipping
\* (page - 1) * limit of them, at most limit, each once; 25 matches with
\* limit 10 give lastPage 3, and page 2 skips 10.
C10_FindAllPages ==
  /\ LastPage(25, 10) = 3
  /\ Skip(2, 10) = 10
  /\ \A p \in Procs :
       IsDone(p, "findAll")
         => LET dto == proc[p].arg
                result == proc[p].res.value
                total == Cardinality({id \in DOMAIN orders :
                           dto.status = Undefined \/ orders[id].status = dto.status})
                skipped == (dto.page - 1) * dto.limit
                left == IF total > skipped THEN total - skipped ELSE 0
            IN /\ proc[p].res.ok
               /\ result.meta.total = total
               /\ result.meta.page = dto.page
               /\ result.meta.lastPage * dto.limit >= total
               /\ (result.meta.lastPage - 1) * dto.limit < total
               /\ Len(result.data) = IF left < dto.limit THEN left ELSE dto.limit
               /\ \A i \in DOMAIN result.data :
                    /\ result.data[i].id \in DOMAIN orders
                    /\ result.data[i] = orders[result.data[i].id]
                    /\ dto.status # Undefined => result.data[i].status = dto.status
                    /\ \A j \in DOMAIN result.data :
                         result.data[j].id = result.data[i].id => j = i

\* C10 witness: the second page of three PAID orders, two to a page
C10_SecondPageOfPaid ==
  \E p \in Procs :
    /\ IsDone(p, "findAll")
    /\ proc[p].arg = [page |-> 2, limit |-> 2, status |-> "PAID"]
    /\ proc[p].res.value.meta = [page |-> 2, total |-> 3, lastPage |-> 2]
    /\ Len(proc[p].res.value.data) = 1

\* C11: the items of an order never change once it is created: every step
\* leaves each order's item rows as they were; create stores each item with the
\* price quoted at creation; and findOne returns each stored item with its
\* stored productId, quantity and price, and the name of the current reply.
C11_ItemsAreImmutable ==
  /\ [][\A id \in DOMAIN orders :
          id \in DOMAIN orders' /\ ItemsOf(orderItems', id) = ItemsOf(orderItems, id)]_vars
  /\ [](\A p \in Procs :
          (IsDone(p, "create") /\ proc[p].res.ok)
            => LET items == ItemsOf(orderItems, proc[p].res.value.id)
               IN /\ Len(items) = Len(proc[p].arg.items)
                  /\ \A i \in DOMAIN items :
                       /\ items[i].productId = proc[p].arg.items[i].productId
                       /\ items[i].quantity = proc[p].arg.items[i].quantity
                       /\ items[i].price = Quoted(p, proc[p].arg.items[i]))
  /\ [](\A p \in Procs :
          (IsDone(p, "findOne") /\ proc[p].res.ok)
            => LET items == ItemsOf(orderItems, proc[p].arg.id)
                   found == proc[p].res.value.OrderItem
               IN /\ Len(found) = Len(items)
                  /\ \A i \in DOMAIN items :
                       /\ found[i].productId = items[i].productId
                       /\ found[i].quantity = items[i].quantity
                       /\ found[i].price = items[i].price
                       /\ \E product \in proc[p].reply.products :
                            product.id = items[i].productId /\ product.name = found[i].name)

\* C11 witness: findOne has returned an item at its stored price and under the
\* name "n2", from a reply that quotes another price for the product
C11_PriceKeptAfterCatalogChange ==
  \E p \in Procs :
    /\ IsDone(p, "findOne")
    /\ proc[p].res.ok
    /\ orders[proc[p].arg.id].status = "CANCELLED"
    /\ \E i \in DOMAIN proc[p].res.value.OrderItem :
         LET item == proc[p].res.value.OrderItem[i]
         IN /\ item.name = "n2"
            /\ Quoted(p, item) # item.price

\* C12: changeStatus requests on the same order with different targets do not
\* block or reject each other: each one that read the order under another
\* status, and whose reply named the products, succeeds, has written once and
\* returns its own target; the status of an order changes only in a step that
\* writes, and the writing step of a changeStatus leaves its target in the
\* store, so the stored status is the target of the last update applied.
C12_ConcurrentChangesBothApply ==
  /\ [](\A p \in Procs :
          (/\ IsDone(p, "changeStatus")
           /\ HasOrder(p)
           /\ Priced(p, proc[p].order.OrderItem)
           /\ proc[p].order.status # proc[p].arg.status)
            => /\ proc[p].res.ok
               /\ proc[p].writes = 1
               /\ proc[p].res.value.status = proc[p].arg.status)
  /\ [][\A id \in DOMAIN orders :
          orders'[id].status # orders[id].status
            => \E p \in Procs :
                 /\ proc[p].pc # "done"
                 /\ proc'[p].pc = "done"
                 /\ proc'[p].writes = 1
                 /\ \/ /\ proc'[p].op = "changeStatus"
                       /\ proc'[p].arg.id = id
                       /\ proc'[p].arg.status = orders'[id].status
                    \/ /\ proc'[p].op = "paidOrder"
                       /\ proc'[p].arg.orderId = id
                       /\ orders'[id].status = "PAID"]_vars
  /\ [][\A p \in Procs :
          (proc[p].op = "changeStatus" /\ proc[p].writes = 0 /\ proc'[p].writes = 1)
            => orders'[proc[p].arg.id].status = proc[p].arg.status]_vars

\* C12 witness: both requests read the order PENDING, one moved it to DELIVERED
\* and the other to CANCELLED, both have returned their target, and the store
\* holds one of the two
C12_BothChangesApplied ==
  /\ \A p \in Procs :
       /\ IsDone(p, "changeStatus")
       /\ proc[p].arg.id = 1
       /\ HasOrder(p)
       /\ proc[p].order.status = "PENDING"
       /\ proc[p].res.ok
       /\ proc[p].writes = 1
  /\ proc[1].arg.status = "DELIVERED"
  /\ proc[2].arg.status = "CANCELLED"
  /\ orders[1].status = "DELIVERED"

\* C13: a paidOrder on an existing order, whatever the order's status is,
\* succeeds and leaves the order paid, PAID, stamped with the payment time, with
\* the request's payment reference and with a receipt of the request's URL.
C13_PaidOrderIgnoresStatus ==
  \A p \in Procs :
    (IsDone(p, "paidOrder") /\ Exists(proc[p].arg.orderId))
      => /\ proc[p].res.ok
         /\ orders[proc[p].arg.orderId].paid
         /\ orders[proc[p].arg.orderId].status = "PAID"
         /\ orders[proc[p].arg.orderId].paidAt # 0
         /\ orders[proc[p].arg.orderId].stripeChargeId = proc[p].arg.stripePaymentId
         /\ \E i \in DOMAIN receipts : receipts[i] = ReceiptRow(proc[p].arg)

\* C14: no step removes an order; an existing order, its items or its receipts
\* change only in the writing step of a changeStatus or a paidOrder on that
\* order; the steps of findOne, findAll and createPaymentSession leave the
\* store as it is; and the number of orders changes only when a create
\* succeeds, which appends one order with its items and touches no other.
C14_OnlyChangeStatusAndPaidOrderModify ==
  /\ [][\A id \in DOMAIN orders : id \in DOMAIN orders']_vars
  /\ [][\A id \in DOMAIN orders :
          (\/ orders'[id] # orders[id]
           \/ ItemsOf(orderItems', id) # ItemsOf(orderItems, id)
           \/ ReceiptsOf(receipts', id) # ReceiptsOf(receipts, id))
            => \E p \in Procs :
                 /\ proc[p].pc # "done"
                 /\ proc'[p].pc = "done"
                 /\ proc'[p].writes = 1
                 /\ \/ proc'[p].op = "changeStatus" /\ proc'[p].arg.id = id
                    \/ proc'[p].op = "paidOrder" /\ proc'[p].arg.orderId = id]_vars
  /\ [][\A p \in Procs :
          (/\ proc'[p] # proc[p]
           /\ proc'[p].op \in {"findOne", "findAll", "createPaymentSession"})
            => UNCHANGED <<orders, orderItems, receipts>>]_vars
  /\ [][Len(orders') # Len(orders)
          => /\ Len(orders') = Len(orders) + 1
             /\ \E p \in Procs :
                  /\ proc[p].op = "create"
                  /\ proc[p].pc = "validating"
                  /\ proc'[p].pc = "done"
                  /\ proc'[p].res.ok
                  /\ proc'[p].res.value.id = Len(orders')
             /\ \A id \in DOMAIN orders : orders'[id] = orders[id]
             /\ receipts' = receipts
             /\ \A i \in DOMAIN orderItems' :
                  IF i \in DOMAIN orderItems
                  THEN orderItems'[i] = orderItems[i]
                  ELSE orderItems'[i].orderId = Len(orders')]_vars

\* C14 witness: the store holds three orders, the first CANCELLED and the
\* second PAID by a changeStatus; a createPaymentSession for the second, handed
\* over as PENDING and with items that are not the stored ones, has sent the
\* items handed over and has returned a session
C14_SessionCreatedForStoredOrder ==
  \E p \in Procs :
    /\ IsDone(p, "createPaymentSession")
    /\ proc[p].res.ok
    /\ Len(orders) = 3
    /\ orders[1].status = "CANCELLED"
    /\ orders[2].status = "PAID"
    /\ proc[p].arg.order.status = "PENDING"
    /\ proc[p].reply.request.orderId = 2
    /\ proc[p].reply.request.currency = "usd"
    /\ ItemsOf(orderItems, 2)[1].productId = "p1"
    /\ Len(proc[p].reply.request.items) = 1
    /\ proc[p].reply.request.items[1].quantity = 2

C16_ChangeStatusNeedsCatalog ==
  /\ [](\A p \in Procs :
          (proc[p].op = "changeStatus" /\ proc[p].writes > 0)
            => HasOrder(p) /\ Priced(p, proc[p].order.OrderItem))
  /\ [](\A p \in Procs :
          (/\ IsDone(p, "changeStatus")
           /\ HasOrder(p)
           /\ ~Priced(p, proc[p].order.OrderItem))
            => /\ ~proc[p].res.ok
               /\ proc[p].writes = 0
               /\ proc[p].res.error =
                    IF proc[p].reply.failed
                    THEN RemoteError(proc[p].reply.error)
                    ELSE UndefinedPropertyError)
  /\ [][\A p \in Procs :
          (/\ proc[p].op = "changeStatus"
           /\ proc[p].pc = "resolving"
           /\ proc'[p].pc = "done"
           /\ \/ proc'[p].reply.failed
              \/ ReadsUndefined(proc[p].order.OrderItem, proc'[p].reply.products))
            => UNCHANGED <<orders, orderItems, receipts>>]_vars

\* C16 witness: the catalog left a product of a PENDING order out, and the
\* changeStatus to DELIVERED failed and left the order PENDING
C16_OmittedProductBlocksChange ==
  \E p \in Procs :
    /\ IsDone(p, "changeStatus")
    /\ HasOrder(p)
    /\ ~proc[p].reply.failed
    /\ ReadsUndefined(proc[p].order.OrderItem, proc[p].reply.products)
    /\ proc[p].order.status = "PENDING"
    /\ proc[p].arg.status = "DELIVERED"
    /\ ~proc[p].res.ok
    /\ orders[proc[p].arg.id].status = "PENDING"

\* C17: under every interleaving, the order a successful changeStatus returns
\* is the requested order with the requested status, whether the request has
\* written or found the status already there.
C17_ReturnedStatusIsRequested ==
  \A p \in Procs :
    (IsDone(p, "changeStatus") /\ proc[p].res.ok)
      => /\ proc[p].res.value.id = proc[p].arg.id
         /\ proc[p].res.value.status = proc[p].arg.status

\* C17 witness: a changeStatus to PENDING has returned the order PENDING
\* without writing, while the other request's update to DELIVERED is what the
\* store holds
C17_StoredStatusDiffersAtReturn ==
  \E p, q \in Procs :
    /\ IsDone(p, "changeStatus")
    /\ proc[p].res.ok
    /\ proc[p].writes = 0
    /\ proc[p].arg.status = "PENDING"
    /\ proc[p].res.value.status = "PENDING"
    /\ IsDone(q, "changeStatus")
    /\ proc[q].arg.id = proc[p].arg.id
    /\ proc[q].writes = 1
    /\ proc[q].arg.status = "DELIVERED"
    /\ orders[proc[p].arg.id].status = "DELIVERED"

\* C18: payment is monotonic: a paid order is paid in every later state, with
\* a payment time, a payment reference and its receipt; no step removes any of
\* them.
C18_PaidStaysPaid ==
  /\ [](\A id \in DOMAIN orders :
          orders[id].paid
            => /\ orders[id].paidAt # 0
               /\ orders[id].stripeChargeId # ""
               /\ ReceiptsOf(receipts, id) # <<>>)
  /\ [][\A id \in DOMAIN orders :
          orders[id].paid
            => /\ id \in DOMAIN orders'
               /\ orders'[id].paid
               /\ orders'[id].paidAt # 0
               /\ orders'[id].stripeChargeId # ""
               /\ ReceiptsOf(receipts', id) # <<>>]_vars

\* C18 witness: the payment of order 2, issued at time 2, was applied before
\* the payment of order 1, issued at time 1; order 1 was then cancelled and a
\* later paidOrder on it has been answered with a refusal; both orders are
\* still paid, each with the time its payment was issued at
C18_PaidAfterLaterRequests ==
  \E p \in Procs :
    /\ IsDone(p, "paidOrder")
    /\ ~proc[p].res.ok
    /\ proc[p].arg.orderId = 1
    /\ Len(orders) = 2
    /\ Len(receipts) = 2
    /\ receipts[1].orderId = 2
    /\ orders[1].paid /\ orders[1].paidAt = 1 /\ orders[1].status = "CANCELLED"
    /\ orders[2].paid /\ orders[2].paidAt = 2
    /\ orders[1].stripeChargeId = "ch1"
    /\ Len(ReceiptsOf(receipts, 1)) = 1

====
